---- MODULE Spec2Model ----
(***************************************************************************)
(* ConsulServiceRegistry (packages/consul, consul-service-registry.ts):    *)
(* the registration lifecycle (onModuleInit -> init -> register with the   *)
(* `retry` operation -> deregister) and the two-tier watch engine          *)
(* (watchAll -> buildServiceStore -> watch) that fills the ServiceStore.   *)
(*                                                                         *)
(* One step of the model is one run-to-completion turn of the Node event   *)
(* loop: a handler runs from the event that wakes it up to its next await. *)
(* The Consul client is taken to be connected (this.client.consul is set), *)
(* so the early returns of lines 217 and 245 are not taken.                *)
(***************************************************************************)
EXTENDS Integers, Sequences, FiniteSets, TLC

\* retry.operation() is called without options (line 179): the `retry`
\* package then schedules 10 retries after the first attempt.
Retries == 10

\* Bounds of the model.
MaxCatalogEvents == 2
MaxDeregisters == 2

ServiceNames == {"A", "B"}
PseudoService == "consul"
Names == ServiceNames \cup {PseudoService}

VARIABLES
    options,          \* SERVICE_REGISTRY_CONFIG, fixed at construction
    modulePc,         \* onModuleInit: "new", "started", "initFailed"
    registration,     \* this.registration has been built
    ttlScheduler,     \* this.ttlScheduler has been created
    watcher,          \* this.watcher, the catalog watch: "none", "active"
    regPc,            \* register(): "idle", "awaiting", "waitRetry", "done"
    promise,          \* the promise register() returned
    timeouts,         \* retry timeouts the operation has left
    regCalls,         \* agent.service.register calls issued
    regOk,            \* agent.service.register calls that succeeded
    addCalls,         \* ttlScheduler.add calls
    enrolled,         \* the instance id has a timer in the TtlScheduler
    backendRegistered,\* the backend holds the instance
    deregPc,          \* deregister(): "idle", "awaiting"
    deregCalls,       \* deregister() calls made
    deregThrew,       \* a deregister() call rejected to its caller
    backend,          \* the backend's health view, per name
    serviceStore,     \* ServiceStore: name -> instances
    watchers,         \* this.watchers: a Map object and its own properties
    handles,          \* the Watch each re-list created: "none" before,
                      \* then "active", "ended" (end() was called on it)
                      \* or "failed" (it ended on a hard error)
    pending,          \* health.service re-list calls in flight
    rebuilds,         \* catalog change events handled
    lastCatalog,      \* the keys of the latest catalog change event
    rebuildFailed,    \* a re-list of the latest rebuild failed
    startupError,     \* onModuleInit rejected to the hosting process
    configuration,    \* the RegistryConfiguration given to
                      \* getSharedProviderUtils
    provided,         \* the useValue of the SERVICE_REGISTRY_CONFIG provider
    maintenance,      \* the backend holds the instance's 'Service Maintenance
                      \* Mode' check
    statusPc,         \* setStatus: "idle" | "awaiting"
    statusArg,        \* the status of the setStatus call in flight
    lastCompleted,    \* the status of the last setStatus call that completed
    reported,         \* what getStatus returned since then ("none": not asked)
    statusThrew       \* the last setStatus call rejected a status it does
                      \* not know

lifecycleVars == <<options, modulePc, registration, ttlScheduler, watcher>>
registerVars == <<regPc, promise, timeouts, regCalls, regOk, addCalls>>
deregisterVars == <<deregPc, deregCalls, deregThrew>>
schedulerVars == <<enrolled, backendRegistered>>
watchVars == <<backend, serviceStore, watchers, handles, pending, rebuilds,
               lastCatalog, rebuildFailed>>
startupVars == <<startupError>>
providerVars == <<configuration, provided>>
statusVars == <<maintenance, statusPc, statusArg, lastCompleted, reported,
                statusThrew>>
vars == <<lifecycleVars, registerVars, deregisterVars, schedulerVars, watchVars,
          startupVars, providerVars, statusVars>>

----------------------------------------------------------------------------
\* Configuration

\* heartbeat and discovery may be absent (null); check.ttl may be undefined.
OptionsSpace ==
    [heartbeat : {"absent", "enabled", "disabled"},
     discovery : {"absent", "failFast", "retry"},
     checkTtl  : BOOLEAN]

HeartbeatEnabled == options.heartbeat = "enabled"
FailFast == options.discovery = "failFast"

\* init(), lines 50-54
InitThrows == options.heartbeat = "absent" \/ options.discovery = "absent"

----------------------------------------------------------------------------
\* Backend data and its normalisation

Node(k) == [Service |-> [ID |-> k]]
NodeLists == {<<>>, <<Node(1)>>}

\* consulServiceToServiceInstance (../utils): one ServiceInstance per node
consulServiceToServiceInstance(nodes) ==
    [i \in DOMAIN nodes |-> [instanceId |-> nodes[i].Service.ID]]

\* catalog.service.list: the names that have instances, and the agent itself
CatalogKeys == {n \in ServiceNames : backend[n] # <<>>} \cup {PseudoService}

\* A health.service re-list, and the Watch it creates, is named by the
\* rebuild (the number of the catalog event) and the service name.
Rebuilds == 1..MaxCatalogEvents
HandleKeys == Rebuilds \X Names

\* new Map(): no entries; no own property (0: undefined, else the rebuild of
\* the handle stored under the name)
EmptyMap == [entries |-> {}, props |-> [n \in Names |-> 0]]

----------------------------------------------------------------------------
\* getSharedProviderUtils (packages/cloud, provider.util.ts)

\* An options object is undefined, or a set of <<key, value>> pairs.
AbsentObject == [present |-> FALSE, fields |-> {}]
Object(fs) == [present |-> TRUE, fields |-> fs]

\* { ...defaults, ...obj }: the keys of obj win; spreading undefined adds
\* nothing
Spread(defaults, obj) ==
    obj.fields \cup {kv \in defaults : \A o \in obj.fields : o[1] # kv[1]}

DiscoveryObjects ==
    {AbsentObject} \cup
    {Object(ff \cup sc) :
        ff \in {{}, {<<"failFast", "true">>}, {<<"failFast", "false">>}},
        sc \in {{}, {<<"scheme", "https">>}}}

ConfigurationSpace ==
    [discoverer : {"consul", "etcd", "zookeeper", "local"},
     service    : {"svc"},
     discovery  : DiscoveryObjects,
     heartbeat  : {"absent", "enabled", "disabled"}]

\* configProvider.useValue = {}, line 41
EmptyUseValue ==
    [service |-> "none", discovery |-> AbsentObject, heartbeat |-> "absent"]

\* No RegistryConfiguration: the registry's options are injected as they are.
NoConfiguration ==
    [discoverer |-> "none", service |-> "none", discovery |-> AbsentObject,
     heartbeat |-> "absent"]

\* A variant of getSharedProviderUtils that spreads the caller's options
\* before the default.
getSharedProviderUtilsDefaultLast(cfg) ==
    IF cfg.discoverer \in {"consul", "etcd", "zookeeper"}
      THEN [service   |-> cfg.service,
            discovery |-> Object(Spread(cfg.discovery.fields,
                                        Object({<<"failFast", "true">>}))),
            heartbeat |-> cfg.heartbeat]
      ELSE [service   |-> cfg.service,
            discovery |-> cfg.discovery,
            heartbeat |-> cfg.heartbeat]

\* getSharedProviderUtils, lines 44-106: the useValue it builds
getSharedProviderUtils(cfg) ==
    CASE cfg.discoverer = "consul" ->
           [service   |-> cfg.service,
            discovery |-> Object(Spread({<<"failFast", "true">>}, cfg.discovery)),
            heartbeat |-> cfg.heartbeat]
      [] cfg.discoverer = "etcd" ->
           [service   |-> cfg.service,
            discovery |-> Object(Spread({<<"failFast", "true">>}, cfg.discovery)),
            heartbeat |-> cfg.heartbeat]
      [] cfg.discoverer = "zookeeper" ->
           [service   |-> cfg.service,
            discovery |-> Object(Spread({<<"failFast", "true">>}, cfg.discovery)),
            heartbeat |-> cfg.heartbeat]
      [] cfg.discoverer = "local" ->
           [service   |-> cfg.service,
            discovery |-> cfg.discovery,
            heartbeat |-> cfg.heartbeat]
      [] OTHER -> EmptyUseValue

\* The options the registry reads from an injected useValue: heartbeat and
\* discovery null or not (lines 50-54), discovery.failFast truthy or not
\* (line 185)
RegistryOptions(u, ttl) ==
    [heartbeat |-> u.heartbeat,
     discovery |-> IF ~u.discovery.present THEN "absent"
                   ELSE IF <<"failFast", "true">> \in u.discovery.fields
                          THEN "failFast"
                          ELSE "retry",
     checkTtl  |-> ttl]

----------------------------------------------------------------------------
\* The registry after construction, whatever its options.
InitRegistry ==
    /\ registration = FALSE
    /\ ttlScheduler = FALSE
    /\ watcher = "none"
    /\ regPc = "idle"
    /\ promise = "none"
    /\ timeouts = Retries
    /\ regCalls = 0
    /\ regOk = 0
    /\ addCalls = 0
    /\ enrolled = FALSE
    /\ backendRegistered = FALSE
    /\ deregPc = "idle"
    /\ deregCalls = 0
    /\ deregThrew = FALSE
    /\ backend = [n \in Names |-> IF n = PseudoService THEN <<Node(0)>> ELSE <<>>]
    /\ serviceStore = [n \in Names |-> <<>>]
    /\ watchers = EmptyMap
    /\ handles = [k \in HandleKeys |-> "none"]
    /\ pending = {}
    /\ rebuilds = 0
    /\ lastCatalog = {}
    /\ rebuildFailed = FALSE
    /\ startupError = FALSE
    /\ maintenance = FALSE
    /\ statusPc = "idle"
    /\ statusArg = "none"
    /\ lastCompleted = "none"
    /\ reported = "none"
    /\ statusThrew = FALSE

\* The registry constructed with options injected directly.
Init ==
    /\ options \in OptionsSpace
    /\ modulePc = "new"
    /\ configuration = NoConfiguration
    /\ provided = EmptyUseValue
    /\ InitRegistry

\* The registry whose options getSharedProviderUtils is about to provide.
ProviderInit ==
    /\ configuration \in ConfigurationSpace
    /\ provided = EmptyUseValue
    /\ options = RegistryOptions(EmptyUseValue, FALSE)
    /\ modulePc = "composing"
    /\ InitRegistry

\* The module is composed: getSharedProviderUtils builds the useValue; for
\* discoverer 'consul' it is injected into ConsulServiceRegistry (the
\* registration builder decides whether the check has a ttl).
Compose ==
    /\ modulePc = "composing"
    /\ provided' = getSharedProviderUtils(configuration)
    /\ IF configuration.discoverer = "consul"
         THEN /\ \E ttl \in BOOLEAN : options' = RegistryOptions(provided', ttl)
              /\ modulePc' = "new"
         ELSE /\ options' = options
              /\ modulePc' = "composed"
    /\ UNCHANGED <<registration, ttlScheduler, watcher, registerVars,
                   deregisterVars, schedulerVars, watchVars, startupVars,
                   configuration, statusVars>>

----------------------------------------------------------------------------
\* onModuleInit, init, register

\* onModuleInit, lines 267-269: the catch block logs the error and does not
\* throw it again
OnModuleInitRethrows == FALSE

\* onModuleInit when init() throws: the error is caught and logged.
ModuleInitFails ==
    /\ modulePc = "new"
    /\ InitThrows
    /\ modulePc' = "initFailed"
    /\ startupError' = (startupError \/ OnModuleInitRethrows)
    /\ UNCHANGED <<options, registration, ttlScheduler, watcher, registerVars,
                   deregisterVars, schedulerVars, watchVars, providerVars, statusVars>>

\* onModuleInit when init() passes: the registration is built, the scheduler
\* created when heartbeat is enabled, the catalog watch started, and
\* register() makes its first attempt (operation.attempt runs it at once).
ModuleInitRegisters ==
    /\ modulePc = "new"
    /\ ~InitThrows
    /\ modulePc' = "started"
    /\ registration' = TRUE
    /\ ttlScheduler' = HeartbeatEnabled
    /\ watcher' = "active"
    /\ regPc' = "awaiting"
    /\ promise' = "pending"
    /\ regCalls' = regCalls + 1
    /\ UNCHANGED <<options, timeouts, regOk, addCalls, deregisterVars,
                   schedulerVars, watchVars, startupVars, providerVars, statusVars>>

\* A variant of the guard that does not test service.check.ttl.
ShouldEnrollIgnoringTtl == HeartbeatEnabled /\ ttlScheduler

\* _internalRegister, lines 108-112: the guard of ttlScheduler.add
ShouldEnroll == HeartbeatEnabled /\ ttlScheduler /\ options.checkTtl

\* resolve / reject settle the promise once; later calls are ignored
Settle(p, outcome) == IF p = "pending" THEN outcome ELSE p

\* register(), lines 185-190: under failFast the catch block rejects, and
\* does not return
RejectIfFailFast(p) == IF FailFast THEN Settle(p, "rejected") ELSE p

\* A variant of operation.retry that always finds a timeout left.
OperationRetryForever == TRUE

\* operation.retry(e), line 191: TRUE while a retry timeout is left
OperationRetry == timeouts > 0

\* The await of line 106 resolves: _internalRegister enrolls the instance
\* when the guard holds, and the attempt resolves the promise (line 183).
RegisterSucceeds ==
    /\ regPc = "awaiting"
    /\ backendRegistered' = TRUE
    /\ regOk' = regOk + 1
    /\ enrolled' = (enrolled \/ ShouldEnroll)
    /\ addCalls' = IF ShouldEnroll THEN addCalls + 1 ELSE addCalls
    /\ promise' = Settle(promise, "resolved")
    /\ regPc' = "done"
    /\ UNCHANGED <<lifecycleVars, timeouts, regCalls, deregisterVars, watchVars, startupVars, providerVars, statusVars>>

\* A variant of RegisterFails that falls through to reject(e) of line 194
\* after a retry was scheduled.
RegisterFailsRejecting ==
    /\ regPc = "awaiting"
    /\ promise' = Settle(promise, "rejected")
    /\ IF OperationRetry
         THEN /\ timeouts' = timeouts - 1
              /\ regPc' = "waitRetry"
         ELSE /\ timeouts' = timeouts
              /\ regPc' = "done"
    /\ startupError' =
          (startupError \/
             (promise = "pending" /\ promise' = "rejected" /\ OnModuleInitRethrows))
    /\ UNCHANGED <<lifecycleVars, regCalls, regOk, addCalls, deregisterVars,
                   schedulerVars, watchVars, providerVars, statusVars>>

\* The await of line 106 rejects: the catch block of lines 184-195. When
\* this rejects the promise, the await of line 266 throws into the catch
\* block of onModuleInit.
RegisterFails ==
    /\ regPc = "awaiting"
    /\ IF OperationRetry
         THEN /\ promise' = RejectIfFailFast(promise)
              /\ timeouts' = timeouts - 1
              /\ regPc' = "waitRetry"
         ELSE /\ promise' = Settle(RejectIfFailFast(promise), "rejected")
              /\ timeouts' = timeouts
              /\ regPc' = "done"
    /\ startupError' =
          (startupError \/
             (promise = "pending" /\ promise' = "rejected" /\ OnModuleInitRethrows))
    /\ UNCHANGED <<lifecycleVars, regCalls, regOk, addCalls, deregisterVars,
                   schedulerVars, watchVars, providerVars, statusVars>>

\* A variant of RetryTimerFires that enrolls before the backend answered.
RetryTimerFiresEnrolling ==
    /\ regPc = "waitRetry"
    /\ regPc' = "awaiting"
    /\ regCalls' = regCalls + 1
    /\ enrolled' = (enrolled \/ ShouldEnroll)
    /\ addCalls' = IF ShouldEnroll THEN addCalls + 1 ELSE addCalls
    /\ UNCHANGED <<lifecycleVars, promise, timeouts, regOk, backendRegistered,
                   deregisterVars, watchVars, startupVars, providerVars, statusVars>>

\* The timer operation.retry set fires: the attempt function runs again and
\* _internalRegister issues the next agent.service.register call.
RetryTimerFires ==
    /\ regPc = "waitRetry"
    /\ regPc' = "awaiting"
    /\ regCalls' = regCalls + 1
    /\ UNCHANGED <<lifecycleVars, promise, timeouts, regOk, addCalls,
                   deregisterVars, schedulerVars, watchVars, startupVars, providerVars, statusVars>>

----------------------------------------------------------------------------
\* deregister, onModuleDestroy

\* deregister() when no Registration was built: the log statement of lines
\* 120-122 reads this.registration outside the try block and throws.
DeregisterThrows ==
    /\ modulePc # "new"
    /\ deregPc = "idle"
    /\ deregCalls < MaxDeregisters
    /\ ~registration
    /\ deregCalls' = deregCalls + 1
    /\ deregThrew' = TRUE
    /\ UNCHANGED <<lifecycleVars, registerVars, deregPc, schedulerVars, watchVars, startupVars, providerVars, statusVars>>

\* deregister(), lines 124-131: the timer is removed from the scheduler and
\* agent.service.deregister is issued.
DeregisterStarts ==
    /\ modulePc # "new"
    /\ deregPc = "idle"
    /\ deregCalls < MaxDeregisters
    /\ registration
    /\ deregCalls' = deregCalls + 1
    /\ enrolled' = FALSE
    /\ deregPc' = "awaiting"
    /\ UNCHANGED <<lifecycleVars, registerVars, deregThrew, backendRegistered,
                   watchVars, startupVars, providerVars, statusVars>>

\* The await of line 131 resolves.
DeregisterSucceeds ==
    /\ deregPc = "awaiting"
    /\ backendRegistered' = FALSE
    /\ deregPc' = "idle"
    /\ UNCHANGED <<lifecycleVars, registerVars, deregCalls, deregThrew, enrolled,
                   watchVars, startupVars, providerVars, statusVars>>

\* The await of line 131 rejects: the error is caught and logged.
DeregisterFails ==
    /\ deregPc = "awaiting"
    /\ deregPc' = "idle"
    /\ UNCHANGED <<lifecycleVars, registerVars, deregCalls, deregThrew,
                   schedulerVars, watchVars, startupVars, providerVars, statusVars>>

----------------------------------------------------------------------------
\* The watch engine: watchAll, buildServiceStore, watch

\* The backend's instances of a service change (the environment).
BackendChange(n, nodes) ==
    /\ backend[n] # nodes
    /\ backend' = [backend EXCEPT ![n] = nodes]
    /\ UNCHANGED <<lifecycleVars, registerVars, deregisterVars, schedulerVars, startupVars, providerVars, statusVars,
                   serviceStore, watchers, handles, pending, rebuilds,
                   lastCatalog, rebuildFailed>>

\* watchAll, line 258: the names of the event without the pseudo-service
FilterServices(keys) == {value \in keys : value # PseudoService}

\* watcher.end() on a set of handles
EndHandles(hs, ids) ==
    [k \in DOMAIN hs |-> IF k \in ids /\ hs[k] = "active" THEN "ended" ELSE hs[k]]

\* buildServiceStore, line 201: forEach visits the entries of the Map
EndAllWatchers(hs, w) == EndHandles(hs, w.entries)

\* The catalog watch emits 'change' (lines 257-260): buildServiceStore ends
\* the watchers the Map iterates, replaces the Map and issues one
\* health.service call per name (lines 201-208).
CatalogChange ==
    /\ watcher = "active"
    /\ rebuilds < MaxCatalogEvents
    /\ LET svcs == FilterServices(CatalogKeys)
       IN  /\ handles' = EndAllWatchers(handles, watchers)
           /\ watchers' = EmptyMap
           /\ pending' = pending \cup
                  {<<rebuilds + 1, s>> : s \in svcs}
           /\ lastCatalog' = CatalogKeys
    /\ rebuilds' = rebuilds + 1
    /\ rebuildFailed' = FALSE
    /\ UNCHANGED <<lifecycleVars, registerVars, deregisterVars, schedulerVars, startupVars, providerVars, statusVars,
                   backend, serviceStore>>

\* serviceStore.setServices(name, list)
setServices(st, name, list) == [st EXCEPT ![name] = list]

\* watch(), lines 221-223: a handle stored under the name is ended first
EndPrior(hs, w, name) ==
    IF w.props[name] # 0 THEN EndHandles(hs, {<<w.props[name], name>>}) ELSE hs

\* watch(), lines 221-236: the handles after watch(name) in rebuild rb
watchHandles(hs, w, name, rb) ==
    [EndPrior(hs, w, name) EXCEPT ![<<rb, name>>] = "active"]

\* watch(), line 225: the new handle is stored as a property of the Map
watchMap(w, name, rb) == [w EXCEPT !.props[name] = rb]

\* A health.service re-list resolves (lines 206-211): the store entry is
\* replaced and the per-service watch created.
RelistSucceeds(t) ==
    /\ t \in pending
    /\ pending' = pending \ {t}
    /\ serviceStore' = setServices(serviceStore, t[2],
                           consulServiceToServiceInstance(backend[t[2]]))
    /\ handles' = watchHandles(handles, watchers, t[2], t[1])
    /\ watchers' = watchMap(watchers, t[2], t[1])
    /\ UNCHANGED <<lifecycleVars, registerVars, deregisterVars, schedulerVars, startupVars, providerVars, statusVars,
                   backend, rebuilds, lastCatalog, rebuildFailed>>

\* A variant of storeAfterFailedRelist that clears the entry.
storeClearedAfterFailedRelist(st, name) == [st EXCEPT ![name] = <<>>]

\* The store after a re-list of `name` rejected: the await of line 206
\* throws, so lines 209-211 do not run.
storeAfterFailedRelist(st, name) == st

\* The store after the watch of `name` failed: only a 'change' listener is
\* attached (line 238), so nothing writes.
storeAfterFailedWatch(st, name) == st

\* A health.service re-list rejects: Promise.all rejects, the other re-lists
\* of the rebuild go on.
RelistFails(t) ==
    /\ t \in pending
    /\ pending' = pending \ {t}
    /\ rebuildFailed' = (rebuildFailed \/ t[1] = rebuilds)
    /\ serviceStore' = storeAfterFailedRelist(serviceStore, t[2])
    /\ UNCHANGED <<lifecycleVars, registerVars, deregisterVars, schedulerVars, startupVars, providerVars, statusVars,
                   backend, watchers, handles, rebuilds, lastCatalog>>

\* A per-service watch emits 'change' (lines 238-241).
WatchChange(h) ==
    /\ handles[h] = "active"
    /\ serviceStore' = setServices(serviceStore, h[2],
                           consulServiceToServiceInstance(backend[h[2]]))
    /\ UNCHANGED <<lifecycleVars, registerVars, deregisterVars, schedulerVars, startupVars, providerVars, statusVars,
                   backend, watchers, handles, pending, rebuilds, lastCatalog,
                   rebuildFailed>>

\* A per-service watch fails hard and ends (a failure after which the watch
\* keeps polling changes no state and is a stuttering step).
WatchFails(h) ==
    /\ handles[h] = "active"
    /\ handles' = [handles EXCEPT ![h] = "failed"]
    /\ serviceStore' = storeAfterFailedWatch(serviceStore, h[2])
    /\ UNCHANGED <<lifecycleVars, registerVars, deregisterVars, schedulerVars, startupVars, providerVars, statusVars,
                   backend, watchers, pending, rebuilds, lastCatalog,
                   rebuildFailed>>

----------------------------------------------------------------------------
\* setStatus, getStatus

\* The statuses a caller passes to setStatus; "DOWN" stands for any value
\* other than the two the method knows.
Statuses == {"OUT_OF_SERVICE", "UP", "DOWN"}

\* A variant of the enable flag with the two branches exchanged.
MaintenanceEnableInverted(status) == status = "UP"

\* setStatus, lines 144-155: the enable flag of the maintenance call
MaintenanceEnable(status) == status = "OUT_OF_SERVICE"

\* getStatus, lines 166-174: OUT_OF_SERVICE when the instance has a check
\* named 'Service Maintenance Mode', UP otherwise
StatusOf(m) == IF m THEN "OUT_OF_SERVICE" ELSE "UP"

\* setStatus with a status it knows (lines 144-155) issues
\* agent.service.maintenance and awaits it.
SetStatusStarts(status) ==
    /\ registration
    /\ statusPc = "idle"
    /\ status \in {"OUT_OF_SERVICE", "UP"}
    /\ statusPc' = "awaiting"
    /\ statusArg' = status
    /\ statusThrew' = FALSE
    /\ UNCHANGED <<lifecycleVars, registerVars, deregisterVars, schedulerVars,
                   watchVars, startupVars, providerVars, maintenance,
                   lastCompleted, reported>>

\* setStatus with any other status throws (lines 156-158); no backend call
\* is made.
SetStatusThrows(status) ==
    /\ registration
    /\ statusPc = "idle"
    /\ status \notin {"OUT_OF_SERVICE", "UP"}
    /\ statusThrew' = TRUE
    /\ UNCHANGED <<lifecycleVars, registerVars, deregisterVars, schedulerVars,
                   watchVars, startupVars, providerVars, maintenance, statusPc,
                   statusArg, lastCompleted, reported>>

\* The maintenance call resolves: the agent, which knows the instance, sets
\* or removes the maintenance check, and setStatus completes.
SetStatusSucceeds ==
    /\ statusPc = "awaiting"
    /\ backendRegistered
    /\ maintenance' = MaintenanceEnable(statusArg)
    /\ lastCompleted' = statusArg
    /\ reported' = "none"
    /\ statusPc' = "idle"
    /\ statusArg' = "none"
    /\ UNCHANGED <<lifecycleVars, registerVars, deregisterVars, schedulerVars,
                   watchVars, startupVars, providerVars, statusThrew>>

\* The maintenance call rejects: setStatus rejects, the backend is as it was.
SetStatusFails ==
    /\ statusPc = "awaiting"
    /\ statusPc' = "idle"
    /\ statusArg' = "none"
    /\ UNCHANGED <<lifecycleVars, registerVars, deregisterVars, schedulerVars,
                   watchVars, startupVars, providerVars, maintenance,
                   lastCompleted, reported, statusThrew>>

\* getStatus (lines 161-175) between setStatus calls: health.checks answers
\* and the checks of the instance are searched for the maintenance check.
GetStatus ==
    /\ registration
    /\ statusPc = "idle"
    /\ reported' = StatusOf(maintenance)
    /\ UNCHANGED <<lifecycleVars, registerVars, deregisterVars, schedulerVars,
                   watchVars, startupVars, providerVars, maintenance, statusPc,
                   statusArg, lastCompleted, statusThrew>>

----------------------------------------------------------------------------
RegistryNext ==
    \/ ModuleInitFails
    \/ ModuleInitRegisters
    \/ RegisterSucceeds
    \/ RegisterFails
    \/ RetryTimerFires
    \/ DeregisterThrows
    \/ DeregisterStarts
    \/ DeregisterSucceeds
    \/ DeregisterFails

WatchNext ==
    \/ \E n \in ServiceNames, nodes \in NodeLists : BackendChange(n, nodes)
    \/ CatalogChange
    \/ \E t \in pending : RelistSucceeds(t)
    \/ \E t \in pending : RelistFails(t)
    \/ \E h \in HandleKeys : WatchChange(h)
    \/ \E h \in HandleKeys : WatchFails(h)

Next == RegistryNext \/ WatchNext

Spec == Init /\ [][Next]_vars

\* The registration lifecycle alone.
RegistrySpec == Init /\ [][RegistryNext]_vars

\* A backend call in flight is answered, and a timer that was set fires.
RegistryFairness ==
    /\ WF_vars(RegisterSucceeds \/ RegisterFails)
    /\ WF_vars(RetryTimerFires)
    /\ WF_vars(DeregisterSucceeds \/ DeregisterFails)

FairRegistrySpec == RegistrySpec /\ RegistryFairness

\* The watch engine alone, from onModuleInit on. buildServiceStore, watch and
\* watchAll read none of the registry options, so one configuration that
\* passes init() stands for all of them.
WatchInit ==
    /\ Init
    /\ options = [heartbeat |-> "enabled", discovery |-> "failFast",
                  checkTtl |-> TRUE]

WatchEngineNext == ModuleInitRegisters \/ WatchNext

WatchSpec == WatchInit /\ [][WatchEngineNext]_vars

\* A re-list in flight is answered, and a watch that is active delivers the
\* backend's state.
WatchFairness ==
    /\ \A t \in HandleKeys : WF_vars(RelistSucceeds(t) \/ RelistFails(t))
    /\ \A h \in HandleKeys : WF_vars(WatchChange(h))

FairWatchSpec == WatchSpec /\ WatchFairness

\* Shutdown of a layer that started: the watch engine, a registration the
\* backend accepts, and deregister.
ShutdownNext ==
    \/ ModuleInitRegisters
    \/ RegisterSucceeds
    \/ DeregisterStarts
    \/ DeregisterSucceeds
    \/ DeregisterFails
    \/ WatchNext

ShutdownSpec == Init /\ [][ShutdownNext]_vars

\* The registry from onModuleInit on, with setStatus and getStatus called one
\* after the other.
StatusNext ==
    \/ ModuleInitFails
    \/ ModuleInitRegisters
    \/ RegisterSucceeds
    \/ RegisterFails
    \/ RetryTimerFires
    \/ \E status \in Statuses : SetStatusStarts(status)
    \/ \E status \in Statuses : SetStatusThrows(status)
    \/ SetStatusSucceeds
    \/ SetStatusFails
    \/ GetStatus

StatusSpec == Init /\ [][StatusNext]_vars

\* The registry composed through getSharedProviderUtils.
ProviderNext == Compose \/ RegistryNext

ProviderSpec == ProviderInit /\ [][ProviderNext]_vars


----------------------------------------------------------------------------
\* Properties

MaxAttempts == Retries + 1

ActiveHandles == {k \in HandleKeys : handles[k] = "active"}
ActiveNames == {k[2] : k \in ActiveHandles}
FailedNames == {k[2] : k \in {h \in HandleKeys : handles[h] = "failed"}}

\* C1: under failFast, while every backend register call has failed, the
\* backend register call has been made at most once.
C1_FailFastSingleAttempt ==
    (FailFast /\ regOk = 0) => regCalls <= 1

\* C2: without failFast and with the heartbeat's TTL check in place,
\* register() settles; it resolves once a backend register call succeeded,
\* with exactly one ttlScheduler.add call in total, and it rejects only when
\* every one of the MaxAttempts calls failed.
RetryCase == options.discovery = "retry" /\ ShouldEnroll
RetryOutcome ==
    /\ addCalls <= 1
    /\ regOk >= 1 => (promise = "resolved" /\ addCalls = 1 /\ regPc = "done")
    /\ promise = "resolved" => regOk = 1
    /\ promise = "rejected" => (regOk = 0 /\ regCalls = MaxAttempts)
C2_RegisterRetry ==
    /\ [](RetryCase => RetryOutcome)
    /\ (RetryCase /\ regPc # "idle") ~> (regPc = "done")
C2_Witness ==
    /\ RetryCase
    /\ promise = "resolved"
    /\ regCalls = 3
    /\ addCalls = 1
    /\ enrolled

\* C3: the instance is enrolled only after a backend register call
\* succeeded, and add is never called more often than register succeeded.
C3_EnrollmentNotSpeculative ==
    /\ enrolled => regOk >= 1
    /\ addCalls <= regOk
C3_Witness ==
    /\ enrolled
    /\ regCalls >= 2
    /\ regOk = 1

\* C4: no service name has two active per-service watches.
C4_OneActiveWatchPerName ==
    \A n \in Names : Cardinality({k \in ActiveHandles : k[2] = n}) <= 1

\* C5: a rebuild (the handling of a catalog change event) leaves no
\* per-service watch active that was active when it started.
C5_RebuildEndsBeforeCreate ==
    [][rebuilds' = rebuilds + 1 =>
          \A k \in HandleKeys : handles[k] = "active" => handles'[k] # "active"]_vars

\* C6: once the latest catalog change event is fully processed (every
\* re-list answered, none of its re-lists failed), the names with an active
\* per-service watch are the names of the event without 'consul', except
\* for names whose watch has since ended on a failure.
FullyProcessed == rebuilds > 0 /\ pending = {} /\ ~rebuildFailed
C6_WatchSetFollowsCatalog ==
    FullyProcessed =>
        /\ ActiveNames \subseteq lastCatalog \ {PseudoService}
        /\ lastCatalog \ {PseudoService} \subseteq ActiveNames \cup FailedNames

\* C7: a step in which a re-list fails or a per-service watch fails leaves
\* every ServiceStore entry as it was.
RelistFailStep ==
    /\ Cardinality(pending') < Cardinality(pending)
    /\ handles' = handles
WatchFailStep ==
    \E k \in HandleKeys : handles[k] = "active" /\ handles'[k] = "failed"
C7_FailureKeepsStore ==
    [][(RelistFailStep \/ WatchFailStep) => serviceStore' = serviceStore]_vars
\* a re-list of the latest rebuild failed for a name whose entry holds
\* instances, and the entry still holds them
C7_Witness ==
    /\ rebuildFailed
    /\ \E n \in lastCatalog \ {PseudoService} :
          /\ <<rebuilds, n>> \notin pending
          /\ handles[<<rebuilds, n>>] = "none"
          /\ serviceStore[n] # <<>>

\* C8: when a name whose entry holds instances is gone from the backend and
\* from the latest catalog change event, its entry eventually holds no
\* instances (or the name has come back).
Removed(n) ==
    /\ rebuilds > 0
    /\ n \notin lastCatalog
    /\ backend[n] = <<>>
    /\ serviceStore[n] # <<>>
C8_RemovedNamesLeaveStore ==
    \A n \in ServiceNames :
        Removed(n) ~> (serviceStore[n] = <<>> \/ backend[n] # <<>>)

\* C9: at the step that issues the backend deregister call, no per-service
\* watch is active, the catalog watch is not active and the instance is not
\* enrolled.
C9_ShutdownOrdering ==
    [][(deregPc = "idle" /\ deregPc' = "awaiting") =>
          /\ \A k \in HandleKeys : handles'[k] # "active"
          /\ watcher' # "active"
          /\ ~enrolled']_vars

\* C10: no deregister() call rejects to its caller.
C10_ShutdownNeverRaises == ~deregThrew

\* C11: once onModuleInit has finished, it has surfaced an error to the
\* hosting process exactly when the options were invalid or register()
\* failed under failFast.
OnModuleInitDone ==
    modulePc = "initFailed" \/ promise \in {"resolved", "rejected"}
MustAbortStartup == InitThrows \/ (FailFast /\ promise = "rejected")
C11_StartupAbortPolicy ==
    OnModuleInitDone => (startupError <=> MustAbortStartup)

\* C12: for discoverer 'consul', when the configuration lacks the heartbeat
\* or the discovery options, onModuleInit ends with init() failed, no
\* Registration built, no catalog watch and no backend register call.
OptionsMissing ==
    configuration.heartbeat = "absent" \/ ~configuration.discovery.present
C12_MandatoryOptions ==
    (/\ configuration.discoverer = "consul"
     /\ OptionsMissing
     /\ modulePc \notin {"composing", "new"})
    => (/\ modulePc = "initFailed"
        /\ ~registration
        /\ watcher = "none"
        /\ regCalls = 0)

\* C20: once the module is composed, for discoverer consul, etcd or
\* zookeeper the provided discovery options carry the caller's failFast when
\* the caller set one and failFast = true otherwise, with the caller's other
\* discovery keys kept; for discoverer local the discovery options are the
\* caller's, unchanged; the heartbeat options are the caller's in every case;
\* and the consul registry runs fail-fast exactly when the provided failFast
\* is true.
Composed == configuration.discoverer # "none" /\ modulePc # "composing"
FailFastOf(obj) == {kv[2] : kv \in {f \in obj.fields : f[1] = "failFast"}}
OtherKeysOf(obj) == {f \in obj.fields : f[1] # "failFast"}
C20_FailFastDefault ==
    Composed =>
      /\ provided.heartbeat = configuration.heartbeat
      /\ IF configuration.discoverer = "local"
           THEN provided.discovery = configuration.discovery
           ELSE /\ provided.discovery.present
                /\ FailFastOf(provided.discovery) =
                     (IF FailFastOf(configuration.discovery) # {}
                        THEN FailFastOf(configuration.discovery)
                        ELSE {"true"})
                /\ OtherKeysOf(provided.discovery) =
                     OtherKeysOf(configuration.discovery)
      /\ configuration.discoverer = "consul" =>
           (FailFast <=> FailFastOf(provided.discovery) = {"true"})
C20_Witness ==
    /\ Composed
    /\ configuration.discoverer = "consul"
    /\ <<"failFast", "false">> \in configuration.discovery.fields
    /\ FailFastOf(provided.discovery) = {"false"}
    /\ options.discovery = "retry"
    /\ regCalls >= 2

\* C14: without failFast, while every backend register call has failed,
\* at most MaxAttempts calls have been made, the instance is not enrolled,
\* and a finished register() has rejected after exactly MaxAttempts calls;
\* and register() does finish unless a backend call succeeds.
ExhaustionCase == options.discovery = "retry" /\ regOk = 0
ExhaustionOutcome ==
    /\ regCalls <= MaxAttempts
    /\ ~enrolled
    /\ addCalls = 0
    /\ promise # "resolved"
    /\ regPc = "done" => (promise = "rejected" /\ regCalls = MaxAttempts)
C14_RetryExhaustionTerminates ==
    /\ [](ExhaustionCase => ExhaustionOutcome)
    /\ (options.discovery = "retry" /\ regPc # "idle")
         ~> (regPc = "done" \/ regOk >= 1)
C14_Witness ==
    /\ ExhaustionCase
    /\ regPc = "done"
    /\ promise = "rejected"
    /\ regCalls = MaxAttempts
    /\ timeouts = 0

\* C17: once a deregister() of the built Registration has completed, no
\* step invokes the backend register call or ttlScheduler.add.
DeregisterCompleted == registration /\ deregCalls >= 1 /\ deregPc = "idle"
C17_NoResurrection ==
    [][DeregisterCompleted =>
         (regCalls' = regCalls /\ addCalls' = addCalls /\ (enrolled' => enrolled))
      ]_vars

\* C18: when register() has rejected, the instance is not registered with
\* the backend and is not enrolled in the TTL scheduler.
C18_OutcomeAgreesWithState ==
    promise = "rejected" => (~backendRegistered /\ ~enrolled)

\* C19: with heartbeat.enabled false, or with a Registration whose check has
\* no ttl, ttlScheduler.add is never called and the instance is never
\* enrolled, while onModuleInit still makes the backend register call.
EnrollmentGated ==
    \/ options.heartbeat = "disabled" /\ ~InitThrows
    \/ ~InitThrows /\ ~options.checkTtl
C19_EnrollmentGated ==
    EnrollmentGated =>
      /\ addCalls = 0
      /\ ~enrolled
      /\ modulePc = "started" => regCalls >= 1
C19_Witness ==
    /\ options.heartbeat = "enabled"
    /\ ~options.checkTtl
    /\ regCalls >= 2
    /\ regOk = 1
    /\ deregCalls >= 1
    /\ addCalls = 0

\* C15: a per-service watch is created only by the most recent rebuild: no
\* step creates a watch for a rebuild that a later catalog change event has
\* superseded, and once no re-list is outstanding no watch is active for a
\* name absent from the most recent catalog event.
WatchCreated(k) == handles[k] # "active" /\ handles'[k] = "active"
C15_NoOverlappingRebuilds ==
    [][/\ \A k \in HandleKeys : WatchCreated(k) => k[1] = rebuilds
       /\ (rebuilds' > 0 /\ pending' = {}) =>
             {k[2] : k \in {h \in HandleKeys : handles'[h] = "active"}}
                \subseteq lastCatalog' \ {PseudoService}
      ]_vars

\* C16: a step that changes the ServiceStore entry of a name is taken while
\* exactly one per-service watch is active for that name, or is the re-list
\* of the most recent rebuild for that name.
StoreWritten(n) == serviceStore'[n] # serviceStore[n]
LatestRelist(n) == \E t \in pending \ pending' : t[1] = rebuilds /\ t[2] = n
C16_SingleWriterPerSlot ==
    [][\A n \in DOMAIN serviceStore :
          StoreWritten(n) =>
            \/ LatestRelist(n)
            \/ Cardinality({k \in ActiveHandles : k[2] = n}) = 1
      ]_vars

\* C13: what getStatus has reported since the last completed setStatus is
\* the status of that call (UP before any call completed); and a step in
\* which setStatus rejects an unknown status issues no maintenance call and
\* leaves the backend's maintenance check as it was.
ExpectedStatus == IF lastCompleted = "none" THEN "UP" ELSE lastCompleted
C13_StatusToggling ==
    /\ [](reported # "none" => reported = ExpectedStatus)
    /\ [][(~statusThrew /\ statusThrew') =>
            (maintenance' = maintenance /\ statusPc' = "idle")]_vars
C13_Witness ==
    /\ lastCompleted = "OUT_OF_SERVICE"
    /\ reported = "OUT_OF_SERVICE"
    /\ statusThrew
    /\ maintenance

====
